---- MODULE Spec2Model ----
(***************************************************************************)
(* A model of _xsleep.py: the XSleep platform binding, its duration        *)
(* sleeps, the randomized sleep, the introspection queries and the         *)
(* character-paced output.                                                 *)
(*                                                                         *)
(* Text (sys.platform, lines of /proc files, environment values) is a      *)
(* sequence of one-character strings, so that str.startswith, str.strip    *)
(* and str.split are computed and not assumed.                             *)
(*                                                                         *)
(* A duration is a rational [n, d] (d > 0, lowest terms).  The inputs are  *)
(* dyadic values for which the double arithmetic of the conversions        *)
(* (x / 1000, x * 60, x * 3600, x * sleep_unit) gives the same truncated   *)
(* integer as exact arithmetic.  random.uniform's a + (b - a) * random()   *)
(* is rounded to nearest-even after each operation, at MantBits bits of    *)
(* precision instead of 53.                                                *)
(*                                                                         *)
(* A Python int that may exceed 31 bits is a sign and two limbs,           *)
(* hi * 2^16 + lo; the unsigned 32-bit value a native call receives is     *)
(* its residue modulo 2^32.                                                *)
(***************************************************************************)
EXTENDS Integers, Sequences, FiniteSets, TLC

VARIABLES
    platform,       \* sys.platform, read by every call
    binding,        \* the XSleep instance: None or [sleep_func, sleep_unit]
    boundPlatform,  \* sys.platform as it was when the last XSleep() ran
    loadAttempts,   \* the libraries the last XSleep() passed to ctypes.CDLL
    lastOp,         \* the last step: [name, args, plat, branch, result]
    stdout,         \* what the last step wrote to standard output
    nativeCalls     \* the native sleeps of the last step: [func, passed, received]

vars == <<platform, binding, boundPlatform, loadAttempts, lastOp, stdout, nativeCalls>>

None == [kind |-> "None"]

\* ------------------------------------------------------------------ bounds

\* bits of precision of the floating-point model of random.uniform
MantBits == 3

\* ------------------------------------------------------------------- text

WIN32 == <<"w","i","n","3","2">>
LINUX == <<"l","i","n","u","x">>
LINUX2 == <<"l","i","n","u","x","2">>
DARWIN == <<"d","a","r","w","i","n">>
FREEBSD == <<"f","r","e","e","b","s","d","1","3">>
CYGWIN == <<"c","y","g","w","i","n">>

\* the values sys.platform takes in the model
Platforms == {WIN32, LINUX, LINUX2, DARWIN, FREEBSD, CYGWIN}

\* str.startswith
StartsWith(s, p) == Len(s) >= Len(p) /\ SubSeq(s, 1, Len(p)) = p

Whitespace == {" ", "\t", "\n"}

RECURSIVE LStrip(_)
LStrip(s) == IF s # <<>> /\ Head(s) \in Whitespace THEN LStrip(Tail(s)) ELSE s

RECURSIVE RStrip(_)
RStrip(s) ==
    IF s # <<>> /\ s[Len(s)] \in Whitespace THEN RStrip(SubSeq(s, 1, Len(s) - 1)) ELSE s

\* str.strip()
Strip(s) == RStrip(LStrip(s))

\* the first whitespace-delimited word of s that has no leading whitespace
RECURSIVE FirstWord(_)
FirstWord(s) ==
    IF s = <<>> \/ Head(s) \in Whitespace THEN <<>> ELSE <<Head(s)>> \o FirstWord(Tail(s))

\* str.split(): the whitespace-delimited words of s
RECURSIVE Split(_)
Split(s) ==
    LET t == LStrip(s) IN
    IF t = <<>> THEN <<>>
    ELSE LET w == FirstWord(t) IN <<w>> \o Split(SubSeq(t, Len(w) + 1, Len(t)))

Digits == <<"0","1","2","3","4","5","6","7","8","9">>

DigitValue(c) == (CHOOSE i \in 1..10 : Digits[i] = c) - 1

IsNumeral(s) == s # <<>> /\ \A i \in 1..Len(s) : \E j \in 1..10 : Digits[j] = s[i]

RECURSIVE NumeralValue(_)
NumeralValue(s) ==
    IF s = <<>> THEN 0 ELSE NumeralValue(SubSeq(s, 1, Len(s) - 1)) * 10 + DigitValue(s[Len(s)])

\* ------------------------------------------------------------ call results

Value(v) == [kind |-> "value", v |-> v]
Raise(e) == [kind |-> "raise", exc |-> e]

\* int(x) and float(x) of text, for text that is a decimal numeral or is no
\* number at all: the value, or ValueError
PyNumber(x) ==
    IF IsNumeral(Strip(x)) THEN Value(NumeralValue(Strip(x))) ELSE Raise("ValueError")

\* ------------------------------------------------------------- durations

RECURSIVE GCD(_, _)
GCD(a, b) == IF b = 0 THEN a ELSE GCD(b, a % b)

Abs(x) == IF x < 0 THEN -x ELSE x

\* the rational n/d in lowest terms
Rat(n, d) == LET g == GCD(Abs(n), d) IN [n |-> n \div g, d |-> d \div g]

RatMulInt(r, k) == Rat(r.n * k, r.d)
RatDivInt(r, k) == Rat(r.n, r.d * k)
RatLe(a, b) == a.n * b.d <= b.n * a.d
RatLt(a, b) == a.n * b.d < b.n * a.d

\* --------------------------------------------------------- Python integers

Base == 2^16

\* the integer (-1)^neg * (hi * 2^16 + lo)
Big(neg, hi, lo) == [neg |-> neg /\ (hi # 0 \/ lo # 0), hi |-> hi, lo |-> lo]

\* n * k for naturals n < 2^15 and k
BigMulInt(n, k) ==
    LET p == n * (k % Base) IN Big(FALSE, n * (k \div Base) + p \div Base, p % Base)

\* floor of b / d for a natural b and 0 < d < 2^15
BigDivInt(b, d) == Big(FALSE, b.hi \div d, ((b.hi % d) * Base + b.lo) \div d)

\* int(seconds * sleep_unit): the product, truncated toward zero
IntOfProduct(seconds, unit) ==
    LET m == BigDivInt(BigMulInt(Abs(seconds.n), unit), seconds.d)
    IN  Big(seconds.n < 0, m.hi, m.lo)

\* the value an unsigned 32-bit parameter (c_uint, c_ulong DWORD) takes from
\* a Python int: its residue modulo 2^32
ToUint32(b) ==
    LET hi == b.hi % Base IN
    IF b.neg
    THEN Big(FALSE, (Base - 1 - hi + (IF b.lo = 0 THEN 1 ELSE 0)) % Base, (Base - b.lo) % Base)
    ELSE Big(FALSE, hi, b.lo)

\* ------------------------------------------------------------ the binding

SLEEP_UNIT_MS == 1000

\* SLEEP_UNIT_US at fault: usleep's argument taken for milliseconds
SleepUnitUsAsMs == 10^3
SLEEP_UNIT_US == 1000000

LIBC_SO == "libc.so.6"
LIBC_DYLIB == "libc.dylib"
USR_LIB_DYLIB == "/usr/lib/libc.dylib"
Libraries == {LIBC_SO, LIBC_DYLIB, USR_LIB_DYLIB}

\* _get_sleep_func() with sys.platform = plat, on a host where ctypes.CDLL
\* loads exactly the libraries in loadable: the pair it returns, or the
\* exception it raises, and the names it passed to ctypes.CDLL
_get_sleep_func(plat, loadable) ==
    IF StartsWith(plat, WIN32)
    THEN [ok |-> TRUE, sleep_func |-> "kernel32.Sleep", sleep_unit |-> SLEEP_UNIT_MS,
          attempts |-> <<>>, exc |-> "none"]
    ELSE IF StartsWith(plat, LINUX) \/ StartsWith(plat, DARWIN)
    THEN LET libc_name == IF StartsWith(plat, DARWIN) THEN LIBC_DYLIB ELSE LIBC_SO
             attempts == IF libc_name \in loadable
                         THEN <<libc_name>> ELSE <<libc_name, USR_LIB_DYLIB>>
         IN  IF attempts[Len(attempts)] \in loadable
             THEN [ok |-> TRUE, sleep_func |-> "libc.usleep", sleep_unit |-> SLEEP_UNIT_US,
                   attempts |-> attempts, exc |-> "none"]
             ELSE [ok |-> FALSE, sleep_func |-> "none", sleep_unit |-> 0,
                   attempts |-> attempts, exc |-> "OSError: cannot open shared object"]
    ELSE [ok |-> FALSE, sleep_func |-> "none", sleep_unit |-> 0,
          attempts |-> <<>>, exc |-> "OSError: Unsupported operating system."]

\* ----------------------------------------------------------------- sleeps

Char(c) == [kind |-> "char", c |-> c]

\* print(f"Sleeping for {seconds} seconds ({time_to_sleep} {unit name})...")
SleepingLine(seconds, time_to_sleep, unit) ==
    [kind |-> "line", text |-> "Sleeping for", seconds |-> seconds,
     time_to_sleep |-> time_to_sleep,
     unit_name |-> IF unit = 1000 THEN "milliseconds" ELSE "microseconds"]

\* print("Awake!")
AwakeLine == [kind |-> "line", text |-> "Awake!"]

\* the call sleep_func(time_to_sleep): the Python int passed, and the value
\* the unsigned 32-bit parameter of Sleep or usleep receives
NativeCall(sleep_func, time_to_sleep) ==
    [func |-> sleep_func, passed |-> time_to_sleep, received |-> ToUint32(time_to_sleep)]

\* the body shared by XSleep._sleep and xsleep: what it prints and the native
\* calls it makes
SleepBody(sleep_func, sleep_unit, seconds) ==
    LET time_to_sleep == IntOfProduct(seconds, sleep_unit)
    IN  [out |-> <<SleepingLine(seconds, time_to_sleep, sleep_unit), AwakeLine>>,
         calls |-> <<NativeCall(sleep_func, time_to_sleep)>>]

_sleep(self, seconds) == SleepBody(self.sleep_func, self.sleep_unit, seconds)

\* the argument each duration method passes to _sleep
milliseconds(ms) == RatDivInt(ms, 1000)
seconds(secs) == secs

\* minutes at fault: an hour's factor in place of a minute's
MinutesTimesHour(mins) == RatMulInt(mins, 3600)
minutes(mins) == RatMulInt(mins, 60)
hours(hrs) == RatMulInt(hrs, 3600)

\* ------------------------------------------------------- random.uniform

RECURSIVE BitLen(_)
BitLen(v) == IF v = 0 THEN 0 ELSE 1 + BitLen(v \div 2)

\* the natural v rounded to MantBits significant bits, ties to even
RoundNat(v) ==
    LET s == BitLen(v) - MantBits IN
    IF s <= 0 THEN v
    ELSE LET q == v \div 2^s
             rem == v % 2^s
             half == 2^(s - 1)
         IN  (IF rem > half \/ (rem = half /\ q % 2 = 1) THEN q + 1 ELSE q) * 2^s

Round(v) == IF v < 0 THEN -RoundNat(-v) ELSE RoundNat(v)

\* random.random() returns k / 2^MantBits for a k in RandomDraws
RandomDraws == 0..(2^MantBits - 1)

\* uniform at fault: a + b * random(), the upper end taken for the width
UniformWithoutWidth(a, b, k) ==
    LET A == a.n * b.d
        step == Round(Round(b.n * a.d) * k)
    IN  Rat(Round(A * 2^MantBits + step), a.d * b.d * 2^MantBits)

\* random.uniform(a, b) = a + (b - a) * random(), with random() = k / 2^MantBits
\* and each operation rounded
uniform(a, b, k) ==
    LET scale == a.d * b.d
        A == a.n * b.d
        B == b.n * a.d
        width == Round(B - A)
        step == Round(width * k)
    IN  Rat(Round(A * 2^MantBits + step), scale * 2^MantBits)

\* one iteration per character of print_message_with_delay's loop
RECURSIVE PrintLoop(_, _, _)
PrintLoop(self, message, delay_seconds) ==
    IF message = <<>> THEN [out |-> <<>>, calls |-> <<>>]
    ELSE LET s == _sleep(self, delay_seconds)
             rest == PrintLoop(self, Tail(message), delay_seconds)
         IN  [out |-> <<Char(Head(message))>> \o s.out \o rest.out,
              calls |-> s.calls \o rest.calls]

\* ----------------------------------------------------------------- inputs

\* the durations the callers pass
Durations == {Rat(-3, 2), Rat(-1, 1), Rat(0, 1), Rat(1, 2), Rat(1, 1), Rat(3, 2), Rat(2, 1)}

\* the ends of the ranges passed to get_random_delay
RangeEnds == {Rat(1, 2), Rat(1, 1), Rat(2, 1)}

\* the longest message passed to print_message_with_delay
MaxMessageLen == 2

Messages == UNION {[1..n -> {"a", "b"}] : n \in 0..MaxMessageLen}

Delays == {Rat(0, 1), Rat(1, 2)}

\* an environment variable: unset, or set to a text
Unset == [set |-> FALSE, text |-> <<>>]
SetTo(text) == [set |-> TRUE, text |-> text]

\* a file: open() raises, or its lines
Unreadable == [readable |-> FALSE, lines |-> <<>>]
File(lines) == [readable |-> TRUE, lines |-> lines]

PROCESSOR == <<"p","r","o","c","e","s","s","o","r">>
MEM_AVAILABLE == <<"M","e","m","A","v","a","i","l","a","b","l","e",":">>

ProcessorCountValues == {Unset, SetTo(<<"4">>), SetTo(<<"0">>), SetTo(<<"x">>)}

CpuInfoFiles ==
    { Unreadable,
      File(<<>>),
      File(<<<<"m","o","d","e","l"," ","n","a","m","e","\t",":"," ","c","p","u">>>>),
      File(<<<<"p","r","o","c","e","s","s","o","r","\t",":"," ","0">>, <<"m","o","d","e","l"," ","n","a","m","e","\t",":"," ","c","p","u">>, <<"p","r","o","c","e","s","s","o","r","\t",":"," ","1">>>>),
      File(<<<<" "," ","p","r","o","c","e","s","s","o","r"," ",":"," ","0","\n">>>>) }

UptimeFiles == {Unreadable, File(<<>>), File(<<<<"1","2"," ","3","\n">>>>), File(<<<<"u","p","\n">>>>)}

MemInfoFiles ==
    { Unreadable,
      File(<<<<"M","e","m","T","o","t","a","l",":"," ","8"," ","k","B","\n">>>>),
      File(<<<<"M","e","m","T","o","t","a","l",":"," ","8"," ","k","B","\n">>, <<"M","e","m","A","v","a","i","l","a","b","l","e",":"," ","4"," ","k","B","\n">>>>),
      File(<<<<"M","e","m","A","v","a","i","l","a","b","l","e",":","\n">>>>),
      File(<<<<"M","e","m","A","v","a","i","l","a","b","l","e",":"," ","x"," ","k","B","\n">>>>) }

UserValues == {Unset, SetTo(<<"a","l","i","c","e">>)}

\* what sysctlbyname does: its return code and the value it leaves in the
\* caller's zero-initialised buffer
SysctlOutcomes == {[rc |-> 0, value |-> 8], [rc |-> -1, value |-> 0]}

Pids == {1, 4242}
TickCounts == {0, 86400000}
CommandOutputs == {<<>>, <<"o","k","\n">>}

\* what a query reads of the host.  A query reads one source per platform,
\* so the hosts of a query vary one source at a time from DefaultHost
DefaultHost ==
    [number_of_processors |-> SetTo(<<"4">>), cpuinfo |-> File(<<>>),
     uptime |-> File(<<>>), meminfo |-> File(<<>>), loadable |-> Libraries,
     sysctl |-> [rc |-> 0, value |-> 8]]

NativeHosts ==
    {[DefaultHost EXCEPT !.loadable = l, !.sysctl = s] :
        l \in SUBSET Libraries, s \in SysctlOutcomes}

CpuCountHosts ==
    {[DefaultHost EXCEPT !.number_of_processors = v] : v \in ProcessorCountValues}
    \cup {[DefaultHost EXCEPT !.cpuinfo = f] : f \in CpuInfoFiles}
    \cup NativeHosts

UptimeHosts == {[DefaultHost EXCEPT !.uptime = f] : f \in UptimeFiles} \cup NativeHosts

FreeMemoryHosts == {[DefaultHost EXCEPT !.meminfo = f] : f \in MemInfoFiles} \cup NativeHosts

\* -------------------------------------------------------------- the state

Init ==
    /\ platform \in Platforms
    /\ binding = None
    /\ boundPlatform = <<>>
    /\ loadAttempts = <<>>
    /\ lastOp = [name |-> "none", args |-> <<>>, plat |-> <<>>, branch |-> "none",
                 result |-> None]
    /\ stdout = <<>>
    /\ nativeCalls = <<>>

\* a call that is not the constructor: what it leaves in the state
Call(name, args, branch, result, out, calls) ==
    /\ lastOp' = [name |-> name, args |-> args, plat |-> platform, branch |-> branch,
                  result |-> result]
    /\ stdout' = out
    /\ nativeCalls' = calls
    /\ UNCHANGED <<platform, binding, boundPlatform, loadAttempts>>

\* the embedding program rebinds sys.platform: a step that prints nothing and
\* sleeps not
PatchPlatform ==
    /\ \E p \in Platforms \ {platform} :
        /\ platform' = p
        /\ lastOp' = [name |-> "sys.platform =", args |-> <<p>>, plat |-> platform,
                      branch |-> "none", result |-> None]
    /\ stdout' = <<>>
    /\ nativeCalls' = <<>>
    /\ UNCHANGED <<binding, boundPlatform, loadAttempts>>

\* XSleep(): __init__ stores what _get_sleep_func returns, or raises what it raises
XSleepInit ==
    /\ binding = None
    /\ \E loadable \in SUBSET Libraries :
        LET r == _get_sleep_func(platform, loadable) IN
        /\ binding' = IF r.ok
                      THEN [sleep_func |-> r.sleep_func, sleep_unit |-> r.sleep_unit]
                      ELSE None
        /\ boundPlatform' = platform
        /\ loadAttempts' = r.attempts
        /\ lastOp' = [name |-> "XSleep", args |-> <<loadable>>, plat |-> platform,
                      branch |-> "none",
                      result |-> IF r.ok THEN None ELSE Raise(r.exc)]
    /\ stdout' = <<>>
    /\ nativeCalls' = <<>>
    /\ UNCHANGED platform

Milliseconds ==
    /\ binding # None
    /\ \E ms \in Durations :
        LET s == _sleep(binding, milliseconds(ms))
        IN  Call("milliseconds", <<ms>>, "bound", None, s.out, s.calls)

Seconds ==
    /\ binding # None
    /\ \E secs \in Durations :
        LET s == _sleep(binding, seconds(secs))
        IN  Call("seconds", <<secs>>, "bound", None, s.out, s.calls)

Minutes ==
    /\ binding # None
    /\ \E mins \in Durations :
        LET s == _sleep(binding, minutes(mins))
        IN  Call("minutes", <<mins>>, "bound", None, s.out, s.calls)

Hours ==
    /\ binding # None
    /\ \E hrs \in Durations :
        LET s == _sleep(binding, hours(hrs))
        IN  Call("hours", <<hrs>>, "bound", None, s.out, s.calls)

\* get_random_delay(min_seconds, max_seconds)
GetRandomDelay ==
    /\ binding # None
    /\ \E min_seconds \in RangeEnds, max_seconds \in RangeEnds, k \in RandomDraws :
        LET random_delay == uniform(min_seconds, max_seconds, k)
            s == _sleep(binding, random_delay)
        IN  Call("get_random_delay", <<min_seconds, max_seconds>>, "bound", None,
                 s.out, s.calls)

\* print_message_with_delay(message, delay_seconds)
PrintMessageWithDelay ==
    /\ binding # None
    /\ \E message \in Messages, delay_seconds \in Delays :
        LET r == PrintLoop(binding, message, delay_seconds)
        IN  Call("print_message_with_delay", <<message, delay_seconds>>, "bound", None,
                 r.out \o <<Char("\n")>>, r.calls)

\* the free function xsleep(seconds): binds anew, then sleeps
XSleepFunction ==
    \E secs \in Durations, loadable \in SUBSET Libraries :
        LET r == _get_sleep_func(platform, loadable)
            s == SleepBody(r.sleep_func, r.sleep_unit, secs)
        IN  IF r.ok
            THEN Call("xsleep", <<secs>>, "none", None, s.out, s.calls)
            ELSE Call("xsleep", <<secs>>, "none", Raise(r.exc), <<>>, <<>>)

\* ------------------------------------------------------ introspection

\* the loop of get_cpu_count over /proc/cpuinfo
RECURSIVE CountProcessorLines(_)
CountProcessorLines(lines) ==
    IF lines = <<>> THEN 0
    ELSE (IF StartsWith(Strip(Head(lines)), PROCESSOR) THEN 1 ELSE 0)
         + CountProcessorLines(Tail(lines))

get_pid(plat, pid) ==
    IF StartsWith(plat, WIN32)
    THEN [branch |-> "win32", result |-> Value(pid)]
    ELSE [branch |-> "not win32", result |-> Value(pid)]

get_cpu_count(plat, number_of_processors, cpuinfo, loadable, sysctl) ==
    IF StartsWith(plat, WIN32)
    THEN [branch |-> "win32",
          result |-> IF number_of_processors.set
                     THEN PyNumber(number_of_processors.text) ELSE Value(1)]
    ELSE IF StartsWith(plat, LINUX)
    THEN [branch |-> "linux",
          result |-> IF cpuinfo.readable
                     THEN Value(CountProcessorLines(cpuinfo.lines)) ELSE Raise("OSError")]
    ELSE IF StartsWith(plat, DARWIN)
    THEN [branch |-> "darwin",
          result |-> IF LIBC_DYLIB \in loadable THEN Value(sysctl.value) ELSE Raise("OSError")]
    ELSE [branch |-> "other", result |-> Value(1)]

\* float(f.readline().split()[0]) of /proc/uptime
UptimeOfFile(lines) ==
    LET words == IF lines = <<>> THEN <<>> ELSE Split(Head(lines))
    IN  IF words = <<>> THEN Raise("IndexError") ELSE PyNumber(words[1])

get_uptime(plat, uptime, loadable, sysctl) ==
    IF StartsWith(plat, LINUX)
    THEN [branch |-> "linux",
          result |-> IF uptime.readable THEN UptimeOfFile(uptime.lines) ELSE Raise("OSError")]
    ELSE IF StartsWith(plat, DARWIN)
    THEN [branch |-> "darwin",
          result |-> IF LIBC_DYLIB \notin loadable THEN Raise("OSError")
                     ELSE IF sysctl.rc # -1 THEN Raise("NameError: time")
                     ELSE None]
    ELSE IF StartsWith(plat, WIN32)
    THEN [branch |-> "win32", result |-> Raise("NameError: time")]
    ELSE [branch |-> "other", result |-> None]

\* the loop of get_free_memory over /proc/meminfo
RECURSIVE MemAvailableOfLines(_)
MemAvailableOfLines(lines) ==
    IF lines = <<>> THEN None
    ELSE IF StartsWith(Head(lines), MEM_AVAILABLE)
    THEN LET words == Split(Head(lines)) IN
         IF Len(words) < 2 THEN Raise("IndexError")
         ELSE LET kb == PyNumber(words[2]) IN
              IF kb.kind = "value" THEN Value(kb.v * 1024) ELSE kb
    ELSE MemAvailableOfLines(Tail(lines))

get_free_memory(plat, meminfo, loadable) ==
    IF StartsWith(plat, LINUX)
    THEN [branch |-> "linux",
          result |-> IF meminfo.readable
                     THEN MemAvailableOfLines(meminfo.lines) ELSE Raise("OSError")]
    ELSE IF StartsWith(plat, DARWIN)
    THEN [branch |-> "darwin",
          result |-> IF LIBC_DYLIB \notin loadable THEN Raise("OSError")
                     ELSE Raise("NameError: vm_statistics")]
    ELSE IF StartsWith(plat, WIN32)
    THEN [branch |-> "win32", result |-> Raise("NameError: MEMORYSTATUSEX")]
    ELSE [branch |-> "other", result |-> None]

\* os.environ.get(name)
EnvironGet(var) == IF var.set THEN Value(var.text) ELSE None

get_username(plat, USERNAME, USER) ==
    IF StartsWith(plat, WIN32)
    THEN [branch |-> "win32", result |-> EnvironGet(USERNAME)]
    ELSE [branch |-> "not win32", result |-> EnvironGet(USER)]

get_current_time_ms(plat, loadable, now) ==
    IF StartsWith(plat, WIN32)
    THEN [branch |-> "win32", result |-> Value(now)]
    ELSE IF LIBC_SO \notin loadable
    THEN [branch |-> "not win32", result |-> Raise("OSError")]
    ELSE IF StartsWith(plat, DARWIN)
    THEN [branch |-> "darwin",
          result |-> IF LIBC_DYLIB \in loadable THEN Value(now) ELSE Raise("OSError")]
    ELSE [branch |-> "not win32, not darwin", result |-> Value(now)]

\* a query: it prints nothing and sleeps not
Query(name, args, r) == Call(name, args, r.branch, r.result, <<>>, <<>>)

GetPid ==
    /\ binding # None
    /\ \E pid \in Pids : Query("get_pid", <<>>, get_pid(platform, pid))

GetCpuCount ==
    /\ binding # None
    /\ \E h \in CpuCountHosts :
        Query("get_cpu_count", <<h>>,
              get_cpu_count(platform, h.number_of_processors, h.cpuinfo, h.loadable,
                            h.sysctl))

GetUptime ==
    /\ binding # None
    /\ \E h \in UptimeHosts :
        Query("get_uptime", <<h>>, get_uptime(platform, h.uptime, h.loadable, h.sysctl))

GetFreeMemory ==
    /\ binding # None
    /\ \E h \in FreeMemoryHosts :
        Query("get_free_memory", <<h>>, get_free_memory(platform, h.meminfo, h.loadable))

GetUsername ==
    /\ binding # None
    /\ \E USERNAME \in UserValues, USER \in UserValues :
        Query("get_username", <<>>, get_username(platform, USERNAME, USER))

GetCurrentTimeMs ==
    /\ binding # None
    /\ \E loadable \in SUBSET Libraries, now \in TickCounts :
        Query("get_current_time_ms", <<>>, get_current_time_ms(platform, loadable, now))

IsInteractive ==
    /\ binding # None
    /\ \E isatty \in BOOLEAN :
        Query("is_interactive", <<>>, [branch |-> "none", result |-> Value(isatty)])

GetPlatform ==
    /\ binding # None
    /\ Query("get_platform", <<>>, [branch |-> "none", result |-> Value(platform)])

\* execute_command(command): what os.popen(command).read() returns
ExecuteCommand ==
    /\ binding # None
    /\ \E output \in CommandOutputs :
        Query("execute_command", <<>>, [branch |-> "none", result |-> Value(output)])

Next ==
    \/ PatchPlatform
    \/ XSleepInit
    \/ Milliseconds
    \/ Seconds
    \/ Minutes
    \/ Hours
    \/ GetRandomDelay
    \/ PrintMessageWithDelay
    \/ XSleepFunction
    \/ GetPid
    \/ GetCpuCount
    \/ GetUptime
    \/ GetFreeMemory
    \/ GetUsername
    \/ GetCurrentTimeMs
    \/ IsInteractive
    \/ GetPlatform
    \/ ExecuteCommand

Spec == Init /\ [][Next]_vars

\* ================================================================ claims

\* the platform family of the spec's table, for the identifiers of Platforms
FamilyOf(plat) ==
    CASE plat = WIN32 -> "Windows"
      [] plat \in {LINUX, LINUX2} -> "Linux"
      [] plat = DARWIN -> "Darwin"
      [] OTHER -> "Unsupported"

Supported == {"Windows", "Linux", "Darwin"}

SleepMethods == {"milliseconds", "seconds", "minutes", "hours"}

\* C1: a binding constructed on the Windows family has sleep unit 1000, one
\* constructed on Linux or Darwin has sleep unit 1000000, and on any other
\* platform identifier construction raises and there is no binding.
C1_UnitByFamily ==
    LET fam == FamilyOf(boundPlatform) IN
    /\ binding # None =>
        /\ fam = "Windows" => binding.sleep_unit = 1000
        /\ fam \in {"Linux", "Darwin"} => binding.sleep_unit = 1000000
        /\ fam \in Supported
    /\ (lastOp.name = "XSleep" /\ fam = "Unsupported") =>
        binding = None /\ lastOp.result.kind = "raise"

\* C1's case: a binding constructed on a Linux identifier that is not "linux"
C1_Witness ==
    /\ lastOp.name = "XSleep"
    /\ boundPlatform = LINUX2
    /\ binding # None
    /\ binding.sleep_unit = 1000000

\* C2: on Darwin the constructor succeeds iff the primary or the alternate
\* library loads, and raises only after trying both; on Linux a failed
\* primary load raises without the alternate path being tried.
C2_FailOverOnDarwinOnly ==
    lastOp.name = "XSleep" =>
        LET loadable == lastOp.args[1]
            fam == FamilyOf(lastOp.plat)
        IN  /\ fam = "Darwin" =>
                /\ binding # None <=> (LIBC_DYLIB \in loadable \/ USR_LIB_DYLIB \in loadable)
                /\ binding = None => loadAttempts = <<LIBC_DYLIB, USR_LIB_DYLIB>>
            /\ (fam = "Linux" /\ LIBC_SO \notin loadable) =>
                /\ binding = None
                /\ lastOp.result.kind = "raise"
                /\ \A i \in 1..Len(loadAttempts) : loadAttempts[i] # USR_LIB_DYLIB

FailingQueries == {"get_cpu_count", "get_uptime", "get_free_memory", "get_username"}

\* C3: on a supported family, get_cpu_count, get_uptime, get_free_memory and
\* get_username return a value or None; none of them raises.
C3_QueriesNeverRaise ==
    (lastOp.name \in FailingQueries /\ FamilyOf(lastOp.plat) \in Supported) =>
        lastOp.result.kind # "raise"

\* whether the source get_cpu_count reads on a family cannot be read on host h
CpuSourceUnreadable(fam, h) ==
    CASE fam = "Windows" -> ~h.number_of_processors.set
      [] fam = "Linux" -> ~h.cpuinfo.readable
      [] fam = "Darwin" -> LIBC_DYLIB \notin h.loadable \/ h.sysctl.rc = -1
      [] OTHER -> FALSE

\* C4: on a supported family get_cpu_count returns an integer >= 1 for every
\* state of its source, and 1 when the source cannot be read.
C4_CpuCountAtLeastOne ==
    (lastOp.name = "get_cpu_count" /\ FamilyOf(lastOp.plat) \in Supported) =>
        /\ lastOp.result.kind = "value"
        /\ lastOp.result.v >= 1
        /\ CpuSourceUnreadable(FamilyOf(lastOp.plat), lastOp.args[1]) => lastOp.result.v = 1

\* C5: get_random_delay with min_seconds > max_seconds raises, makes no
\* native sleep and prints no notification.
C5_InvertedRangeRejected ==
    (lastOp.name = "get_random_delay" /\ RatLt(lastOp.args[2], lastOp.args[1])) =>
        /\ lastOp.result.kind = "raise"
        /\ nativeCalls = <<>>
        /\ stdout = <<>>

\* C6: print_message_with_delay writes the characters of the message to
\* standard output in order with nothing between two of them: the first
\* Len(message) items it writes are the characters of the message.
C6_OnlyTheMessageIsWritten ==
    lastOp.name = "print_message_with_delay" =>
        LET message == lastOp.args[1] IN
        /\ Len(stdout) >= Len(message)
        /\ SubSeq(stdout, 1, Len(message)) = [i \in 1..Len(message) |-> Char(message[i])]

\* the seconds the claim gives for a duration method: ms/1000, s, 60*m, 3600*h
ClaimedSeconds(name, x) ==
    CASE name = "milliseconds" -> [n |-> x.n, d |-> x.d * 1000]
      [] name = "seconds" -> x
      [] name = "minutes" -> [n |-> 60 * x.n, d |-> x.d]
      [] name = "hours" -> [n |-> 3600 * x.n, d |-> x.d]

\* C7: each duration method makes exactly one native call, passing the
\* truncated seconds * sleep_unit of its argument converted to seconds
\* (ms/1000, s, 60*m, 3600*h); minutes(m) makes the native call of
\* seconds(60*m) and hours(h) that of seconds(3600*h).
C7_OneCallOfTruncatedProduct ==
    (lastOp.name \in SleepMethods) =>
        LET x == lastOp.args[1]
            secs == ClaimedSeconds(lastOp.name, x)
        IN  /\ Len(nativeCalls) = 1
            /\ nativeCalls[1].func = binding.sleep_func
            /\ nativeCalls[1].passed = IntOfProduct(secs, binding.sleep_unit)
            /\ lastOp.name = "minutes" =>
                nativeCalls = _sleep(binding, seconds(Rat(60 * x.n, x.d))).calls
            /\ lastOp.name = "hours" =>
                nativeCalls = _sleep(binding, seconds(Rat(3600 * x.n, x.d))).calls

\* C7's case: minutes(1.5) on a millisecond binding passes 90000 = 2^16 + 24464
C7_Witness ==
    /\ lastOp.name = "minutes"
    /\ lastOp.args = <<Rat(3, 2)>>
    /\ binding.sleep_unit = 1000
    /\ Len(nativeCalls) = 1
    /\ nativeCalls[1].passed = Big(FALSE, 1, 24464)

\* the value get_random_delay drew: the seconds of the sleep it announced
DrawnDelay == stdout[1].seconds

\* what C8 says of everything but the upper end of the range
C8_Rest ==
    LET min_seconds == lastOp.args[1]
        max_seconds == lastOp.args[2]
        d == DrawnDelay
    IN  /\ Len(stdout) = 2
        /\ RatLe(min_seconds, d)
        /\ stdout = _sleep(binding, d).out
        /\ nativeCalls = _sleep(binding, d).calls
        /\ Len(nativeCalls) = 1
        /\ min_seconds = max_seconds =>
            /\ d = min_seconds
            /\ stdout = _sleep(binding, seconds(min_seconds)).out
            /\ nativeCalls = _sleep(binding, seconds(min_seconds)).calls

InOrder == lastOp.name = "get_random_delay" /\ RatLe(lastOp.args[1], lastOp.args[2])

\* C8 as stated: for min_seconds <= max_seconds the drawn d has
\* min_seconds <= d < max_seconds (d = min_seconds when they are equal), one
\* sleep of d is made, and get_random_delay(x, x) does what seconds(x) does.
C8_DrawBelowMax ==
    InOrder =>
        /\ C8_Rest
        /\ lastOp.args[1] # lastOp.args[2] => RatLt(DrawnDelay, lastOp.args[2])

\* C8 as amended: for min_seconds <= max_seconds the drawn d has
\* min_seconds <= d <= max_seconds (rounding can give max_seconds itself),
\* one sleep of d is made, and get_random_delay(x, x) does what seconds(x) does.
C8_DrawWithinRange ==
    InOrder =>
        /\ C8_Rest
        /\ RatLe(DrawnDelay, lastOp.args[2])

\* C8's case: get_random_delay(1, 2) draws 2, the upper end
C8_Witness ==
    /\ lastOp.name = "get_random_delay"
    /\ lastOp.args = <<Rat(1, 1), Rat(2, 1)>>
    /\ DrawnDelay = Rat(2, 1)
    /\ Len(nativeCalls) = 1

\* whether a branch label is the branch of a family
BranchOf(branch, fam) ==
    CASE branch \in {"none", "bound"} -> TRUE
      [] branch = "win32" -> fam = "Windows"
      [] branch = "linux" -> fam = "Linux"
      [] branch = "darwin" -> fam = "Darwin"
      [] branch = "not win32" -> fam # "Windows"
      [] branch = "not win32, not darwin" -> fam \notin {"Windows", "Darwin"}
      [] OTHER -> FALSE

\* C9: a binding keeps the sleep_func and sleep_unit of the platform it was
\* constructed on, and every operation on it takes the branch of that
\* platform, not of sys.platform as it is when the operation is called.
C9_BoundOnceForAll ==
    binding # None =>
        LET fam == FamilyOf(boundPlatform) IN
        /\ binding.sleep_unit = (IF fam = "Windows" THEN 1000 ELSE 1000000)
        /\ binding.sleep_func = (IF fam = "Windows" THEN "kernel32.Sleep" ELSE "libc.usleep")
        /\ BranchOf(lastOp.branch, fam)

\* C10: the native primitive receives the truncated product
\* seconds * sleep_unit itself, never that product modulo 2^32; a negative
\* duration is rejected before any native call.
C10_NativeReceivesTheProduct ==
    /\ \A i \in 1..Len(nativeCalls) :
        /\ ~nativeCalls[i].passed.neg
        /\ nativeCalls[i].received = nativeCalls[i].passed
    /\ (lastOp.name \in SleepMethods \cup {"xsleep"} /\ lastOp.args[1].n < 0) =>
        /\ lastOp.result.kind = "raise"
        /\ nativeCalls = <<>>

====
